---- MODULE Spec2Model ----
(***************************************************************************)
(* Three-phase motor simulator (wtliu/motor_sim): the integrator `step`,   *)
(* the host loop of `main` and the operator edits of `run_gui`.            *)
(*                                                                         *)
(* Scalars are exact integers in fixed units, chosen so that every         *)
(* division the integrator performs is exact on the values explored:       *)
(*   angle    one unit is 60 degrees, so 2*pi is 6 and 2*pi/3 is 2;        *)
(*   sine     in units of sqrt(3)/2, exact on the 60-degree grid           *)
(*            (0, 1, 1, 0, -1, -1);                                        *)
(*   voltage  one unit is a third of a volt-unit: bus and diode voltages   *)
(*            are multiples of 3, so the neutral voltage sum/3 is exact;   *)
(*   L, J     phase_inductance and inertia_rotor are 1 in their units.     *)
(***************************************************************************)
EXTENDS Integers, Sequences, FiniteSets, TLC

\* ------------------------------------------------------------- bounds
MaxSteps == 3      \* calls of step explored along one behaviour
MaxCur == 24       \* |phase current| explored
MaxVel == 12       \* |rotor angular velocity| explored
MaxMult == 2       \* largest step multiplier the operator picks
MaxDeadTime == 3   \* largest gate dead time the operator picks (time units)
MaxPeriod == 4     \* largest controller period the operator picks (time units)
MaxWrites == 7     \* observer samples explored along one behaviour
kNumRollingPts == 3  \* capacity of the rolling buffers explored
DutyBits == 3      \* duties and the PWM carrier are counted in units of 2^-DutyBits

\* The duty 1.0.
DutyOne == 2 ^ DutyBits

\* ---------------------------------------------------------- constants
LOW == 0
HIGH == 1
OFF == 2
kPI == 3
kStepMultiplierMin == 1
kStepMultiplierMax == 5000
kCommutationModeManual == "manual"
kCommutationModeFOC == "foc"
kCommutationModeSixStep == "six_step"
\* Resistance and inductance are counted in units of 10^kParamUnitExp, the
\* PI gains in units of 10^kGainUnitExp; the bandwidth of the automatic PI
\* tuning, 10000 rad/s, is then 10 gain units per unit of R or L.
kParamUnitExp == -4
kGainUnitExp == -1
kAutoPiBandwidth == 10

Turn == 2 * kPI
Phases == 0 .. 2
SwitchStates == {LOW, HIGH, OFF}

\* ------------------------------------------------------- input domains
\* init_sim_params: the motors explored.  Voltages are multiples of 3.
MotorConfigs ==
    {[dt |-> 1, phase_resistance |-> 1, num_pole_pairs |-> 1],
     [dt |-> 2, phase_resistance |-> 2, num_pole_pairs |-> 2]}
LoadTorques == {0, 1}
ZeroCoggingMap == [k \in 0 .. Turn - 1 |-> 0]
CoggingMaps == {ZeroCoggingMap, [k \in 0 .. Turn - 1 |-> IF k % 2 = 0 THEN 1 ELSE -1]}
\* Dead times and controller periods the operator picks, in time units: zero,
\* a multiple of the dt of 2 and one that is not.
DeadTimes == {0, 2, MaxDeadTime}
Periods == {2, MaxPeriod}
\* What one run of the current-control pipeline may come out with: the three
\* duties of the space-vector modulation before they are clamped and quantized
\* (in units of 2^-DutyBits, some off the range [0, 1]) and the q- and d-axis
\* current errors.
FocOutputs ==
    {[duties |-> <<DutyOne + 1, -1, 3>>, iq_err |-> 1, id_err |-> 0],
     [duties |-> <<1, DutyOne, 5>>, iq_err |-> -1, id_err |-> 1]}

VARIABLES
    params,        \* SimParams
    state,         \* SimState of the integrator
    paused,        \* sim_state->paused
    load_torque,   \* sim_state->load_torque
    cogging_torque_map, \* motor.params.cogging_torque_map
    commutation_mode,   \* sim_state->commutation_mode
    gate,          \* board.gate: commanded, last_commanded, dead_time, dead_time_remaining
    pwm,           \* board.pwm: level, duties
    foc,           \* sim_state->foc: period, last_tick_time, iq/id controller
    should_step,   \* main: bool should_step
    pc,            \* main: position in the host loop
    i,             \* main: loop counter of the step loop
    n_steps,       \* history: calls of step so far
    frame_time0,   \* history: state.time when the running step loop began
    n_samples,     \* history: calls of update_rolling_buffers so far
    held,          \* history, per phase: ticks since commanded last toggled (0: none yet)
    foc_runs,      \* history: <<runs of the controller, time of the last run>>
    buffers,       \* RollingBuffers: ctx and one array per observer channel
    writes,        \* history: calls of update_rolling_buffers on buffers
    csv,           \* the text of the last to_csv, token by token
    six_step_phase_advance, \* sim_state->six_step_phase_advance, in twelfths of a turn
    auto_pi_params,         \* run_gui: static bool auto_pi_params
    gui_tab        \* run_gui: the tab of the control window that is shown

simVars == <<params, state, load_torque, cogging_torque_map>>
ctlVars == <<commutation_mode, gate, pwm, foc>>
histVars == <<n_samples, held, foc_runs>>
uiVars == <<six_step_phase_advance, auto_pi_params, gui_tab>>
extVars == <<buffers, writes, csv, six_step_phase_advance, auto_pi_params, gui_tab>>
vars == <<params, state, paused, load_torque, cogging_torque_map,
          commutation_mode, gate, pwm, foc, should_step, pc, i, n_steps,
          frame_time0, n_samples, held, foc_runs, buffers, writes, csv,
          six_step_phase_advance, auto_pi_params, gui_tab>>

\* ------------------------------------------------------------- helpers
Abs(x) == IF x < 0 THEN -x ELSE x

Max(a, b) == IF a > b THEN a ELSE b

Min(a, b) == IF a < b THEN a ELSE b

\* A vector of three, one entry per phase.
Vec3(a, b, c) == [n \in Phases |-> <<a, b, c>>[n + 1]]

Sum3(v) == v[0] + v[1] + v[2]

Dot3(a, b) == a[0] * b[0] + a[1] * b[1] + a[2] * b[2]

\* std::fmod: the remainder of truncated division, with the sign of x.
Fmod(x, m) == IF x >= 0 THEN x % m ELSE -((-x) % m)

\* sin on the 60-degree grid, in units of sqrt(3)/2, for any integer angle.
Sin6(a) == <<0, 1, 1, 0, -1, -1>>[(a % Turn) + 1]

\* generate_odd_sine_series: [sin a, sin 3a, ..., sin (2n-1)a].
generate_odd_sine_series(num_terms, a) ==
    [k \in 1 .. num_terms |-> Sin6((2 * k - 1) * a)]

get_back_emf(normalized_bEmf_coeffs, angle_electrical) ==
    LET sines == generate_odd_sine_series(5, angle_electrical)
    IN  sines[1] * normalized_bEmf_coeffs[1] + sines[2] * normalized_bEmf_coeffs[2]
        + sines[3] * normalized_bEmf_coeffs[3] + sines[4] * normalized_bEmf_coeffs[4]
        + sines[5] * normalized_bEmf_coeffs[5]

\* step, the switch statement of the pole-voltage loop, for one phase.
PoleVoltage(p, sw, i_coil) ==
    IF sw = OFF
    THEN LET rail == IF i_coil > 0 THEN 0 ELSE p.bus_voltage
         IN  IF Abs(i_coil) > p.i_diode_active
             THEN rail - p.v_diode_active
             ELSE rail
    ELSE IF sw = HIGH THEN p.bus_voltage
    ELSE 0

NormalizedBEmfs(p, s) ==
    [n \in Phases |->
        get_back_emf(p.normalized_bEmf_coeffs,
                     s.angle_electrical
                     + (IF n = 1 THEN (2 * kPI) \div 3
                        ELSE IF n = 2 THEN -((2 * kPI) \div 3) ELSE 0))]

NeutralVoltageGrounded(v_poles, bEmfs) == 0

NeutralVoltage(v_poles, bEmfs) == (Sum3(v_poles) - Sum3(bEmfs)) \div 3

DiDtBrokenOhm(v_phase, bEmf, i_coil, p) ==
    (v_phase - bEmf - p.phase_resistance) \div p.phase_inductance

DiDt(v_phase, bEmf, i_coil, p) ==
    (v_phase - bEmf - i_coil * p.phase_resistance) \div p.phase_inductance

Torque(i_coils, normalized_bEmfs) == Dot3(i_coils, normalized_bEmfs)

step_exits_never(s) == FALSE

\* step, the default label of the switch: printf("Unhandled switch case!");
\* exit(-1) at the first gate that is none of OFF, HIGH, LOW.
step_exits(s) == \E n \in Phases : s.switches[n] \notin {OFF, HIGH, LOW}

\* The warnings step has counted once it has brought the state to s: step
\* keeps no such count, neither in SimState nor anywhere else.
warning_count(s) == 0

step_angle_before_velocity(p, s) ==
    LET v_poles == [n \in Phases |-> PoleVoltage(p, s.switches[n], s.i_coils[n])]
        normalized_bEmfs == NormalizedBEmfs(p, s)
        bEmfs == [n \in Phases |-> normalized_bEmfs[n] * s.angular_vel_rotor]
        v_neutral == NeutralVoltage(v_poles, bEmfs)
        v_phases == [n \in Phases |-> v_poles[n] - v_neutral]
        di_dt == [n \in Phases |-> DiDt(v_phases[n], bEmfs[n], s.i_coils[n], p)]
        i_coils == [n \in Phases |-> s.i_coils[n] + di_dt[n] * p.dt]
        torque == Torque(i_coils, normalized_bEmfs)
        angular_accel_rotor == torque \div p.inertia_rotor
        angle_rotor == Fmod(s.angle_rotor + s.angular_vel_rotor * p.dt, 2 * kPI)
    IN  [s EXCEPT !.time = s.time + p.dt, !.i_coils = i_coils, !.v_poles = v_poles,
                  !.bEmfs = bEmfs, !.v_neutral = v_neutral, !.v_phases = v_phases,
                  !.torque = torque, !.angular_accel_rotor = angular_accel_rotor,
                  !.angular_vel_rotor = s.angular_vel_rotor + angular_accel_rotor * p.dt,
                  !.angle_rotor = angle_rotor,
                  !.angle_electrical = Fmod(angle_rotor * p.num_pole_pairs, 2 * kPI)]

step_opens_gates(p, s) ==
    [s EXCEPT !.time = s.time + p.dt, !.switches = [n \in Phases |-> OFF]]

\* void step(const SimParams& params, SimState* state)
step(p, s) ==
    LET v_poles == [n \in Phases |-> PoleVoltage(p, s.switches[n], s.i_coils[n])]
        normalized_bEmfs == NormalizedBEmfs(p, s)
        bEmfs == [n \in Phases |-> normalized_bEmfs[n] * s.angular_vel_rotor]
        v_neutral == NeutralVoltage(v_poles, bEmfs)
        v_phases == [n \in Phases |-> v_poles[n] - v_neutral]
        di_dt == [n \in Phases |-> DiDt(v_phases[n], bEmfs[n], s.i_coils[n], p)]
        i_coils == [n \in Phases |-> s.i_coils[n] + di_dt[n] * p.dt]
        torque == Torque(i_coils, normalized_bEmfs)
        angular_accel_rotor == torque \div p.inertia_rotor
        angular_vel_rotor == s.angular_vel_rotor + angular_accel_rotor * p.dt
        angle_rotor == Fmod(s.angle_rotor + angular_vel_rotor * p.dt, 2 * kPI)
        angle_electrical == Fmod(angle_rotor * p.num_pole_pairs, 2 * kPI)
    IN  [time |-> s.time + p.dt,
         switches |-> s.switches,
         i_coils |-> i_coils,
         v_poles |-> v_poles,
         bEmfs |-> bEmfs,
         v_neutral |-> v_neutral,
         v_phases |-> v_phases,
         torque |-> torque,
         angular_accel_rotor |-> angular_accel_rotor,
         angular_vel_rotor |-> angular_vel_rotor,
         angle_rotor |-> angle_rotor,
         angle_electrical |-> angle_electrical]

\* The part of the state space explored: a step whose result leaves it is not taken.
InBounds(s) ==
    /\ \A n \in Phases : Abs(s.i_coils[n]) <= MaxCur
    /\ Abs(s.angular_vel_rotor) <= MaxVel

\* Automatic PI tuning: p = bandwidth * L, i = bandwidth * R.
make_motor_pi_params(bandwidth, resistance, inductance) ==
    [p_gain |-> bandwidth * inductance, i_gain |-> bandwidth * resistance]

\* ------------------------------------------------------------ initial
init_sim_params ==
    \E c \in MotorConfigs :
        params = [dt |-> c.dt,
                  bus_voltage |-> 3,
                  i_diode_active |-> 1,
                  v_diode_active |-> 3,
                  normalized_bEmf_coeffs |-> <<1, 0, 0, 0, 0>>,
                  phase_resistance |-> c.phase_resistance,
                  phase_inductance |-> 1,
                  inertia_rotor |-> 1,
                  num_pole_pairs |-> c.num_pole_pairs,
                  step_multiplier |-> kStepMultiplierMin]

init_sim_state ==
    state = [time |-> 0,
             switches |-> [n \in Phases |-> LOW],
             i_coils |-> [n \in Phases |-> 0],
             v_poles |-> [n \in Phases |-> 0],
             bEmfs |-> [n \in Phases |-> 0],
             v_neutral |-> 0,
             v_phases |-> [n \in Phases |-> 0],
             torque |-> 0,
             angular_accel_rotor |-> 0,
             angular_vel_rotor |-> 0,
             angle_rotor |-> 0,
             angle_electrical |-> 0]

\* RollingBuffers as constructed: the write index at 0, nothing wrapped, every
\* channel zero.
init_rolling_buffers ==
    LET zeros == [k \in 0 .. kNumRollingPts - 1 |-> 0]
        zeros3 == [n \in Phases |-> zeros]
    IN  [ctx |-> [next_idx |-> 0, wrap_around |-> FALSE],
         timestamps |-> zeros,
         phase_vs |-> zeros3,
         phase_currents |-> zeros3,
         bEmfs |-> zeros3,
         normed_bEmfs |-> zeros3,
         pwm_duties |-> zeros3,
         pwm_level |-> zeros,
         gate_states |-> zeros3,
         current_q |-> zeros,
         current_d |-> zeros,
         current_q_err |-> zeros,
         current_q_integral |-> zeros,
         current_d_err |-> zeros,
         current_d_integral |-> zeros,
         power_draw |-> zeros,
         rotor_angular_vel |-> zeros,
         torque |-> zeros]

\* Constructed once with defaults: a quiescent motor, no load, zero cogging,
\* all gates LOW and driven by hand.
Init ==
    /\ init_sim_params
    /\ init_sim_state
    /\ paused \in BOOLEAN
    /\ load_torque = 0
    /\ cogging_torque_map = ZeroCoggingMap
    /\ commutation_mode = kCommutationModeManual
    /\ gate = [commanded |-> [n \in Phases |-> LOW],
               last_commanded |-> [n \in Phases |-> LOW],
               dead_time |-> 0,
               dead_time_remaining |-> [n \in Phases |-> 0]]
    /\ pwm = [level |-> 0, duties |-> <<0, 0, 0>>, resolution |-> 0]
    /\ foc = [period |-> 2, last_tick_time |-> 0,
              i_controller_params |->
                  make_motor_pi_params(kAutoPiBandwidth, params.phase_resistance,
                                       params.phase_inductance),
              iq_controller |-> [err |-> 0, integral |-> 0],
              id_controller |-> [err |-> 0, integral |-> 0]]
    /\ should_step = FALSE
    /\ pc = "frame"
    /\ i = 0
    /\ n_steps = 0
    /\ frame_time0 = 0
    /\ n_samples = 0
    /\ held = [n \in Phases |-> 0]
    /\ foc_runs = <<0, 0>>
    /\ buffers = init_rolling_buffers
    /\ writes = 0
    /\ csv = <<>>
    /\ six_step_phase_advance = 0
    /\ auto_pi_params = TRUE
    /\ gui_tab = "controls"

\* ---------------------------------------------------------- host loop
\* main runs one frame at a time: process_sdl_imgui_events, sdl_imgui_newframe
\* and run_gui (one action per widget the operator may touch in the frame),
\* then the step loop, then the rendering calls.  pc = "frame" is the top of
\* the while loop, pc = "loop" the for loop, pc = "exited" after return 0,
\* pc = "aborted" after exit(-1).

\* The exit status of the process once it has ended.
exit_status == IF pc = "aborted" THEN -1 ELSE 0

\* What every run_gui does after its widgets: report whether to step; main
\* then enters its step loop with i = 0, or, if (should_step) failing, renders
\* the frame and starts the while loop over.
EndGui ==
    /\ should_step' = ~paused'
    /\ pc' = IF should_step' THEN "loop" ELSE "frame"
    /\ i' = 0
    /\ frame_time0' = IF should_step' THEN state'.time ELSE 0
    /\ UNCHANGED <<n_steps, histVars, extVars>>

\* run_gui, no widget touched.
GuiIdle ==
    /\ pc = "frame"
    /\ UNCHANGED <<simVars, ctlVars, paused>>
    /\ EndGui

\* run_gui, the Pause / Resume button is pressed.
GuiPauseButton ==
    /\ pc = "frame"
    /\ paused' = ~paused
    /\ UNCHANGED <<simVars, ctlVars>>
    /\ EndGui

SliderIntNoClamp(v, v_min, v_max) == v

\* ImGui::SliderInt clamps the value it writes to [v_min, v_max].
SliderInt(v, v_min, v_max) ==
    IF v < v_min THEN v_min ELSE IF v > v_max THEN v_max ELSE v

\* bool Slider(label, scalar, low, high): ImGui::SliderFloat writes the value
\* within [low, high].
Slider(v, low, high) == IF v < low THEN low ELSE IF v > high THEN high ELSE v

\* run_gui, SliderInt("Step Multiplier", &sim_state->step_multiplier, 1, 5000).
GuiStepMultiplier ==
    /\ pc = "frame"
    /\ \E m \in 0 .. MaxMult :
          LET v == SliderInt(m, kStepMultiplierMin, kStepMultiplierMax)
          IN  /\ v # params.step_multiplier
              /\ params' = [params EXCEPT !.step_multiplier = v]
    /\ UNCHANGED <<state, load_torque, cogging_torque_map, ctlVars, paused>>
    /\ EndGui

\* The commutation control writes one gate state between two frames.
GuiSwitch ==
    /\ pc = "frame"
    /\ \E n \in Phases, sw \in SwitchStates :
          /\ state.switches[n] # sw
          /\ state' = [state EXCEPT !.switches[n] = sw]
    /\ UNCHANGED <<params, load_torque, cogging_torque_map, ctlVars, paused>>
    /\ EndGui

\* run_gui, Slider("Load Torque", &sim_state->load_torque, -1.0, 1.0).
GuiLoadTorque ==
    /\ pc = "frame"
    /\ \E t \in LoadTorques : t # load_torque /\ load_torque' = t
    /\ UNCHANGED <<params, state, cogging_torque_map, ctlVars, paused>>
    /\ EndGui

\* run_advanced_motor_config, the two cogging-map buttons.
GuiCogging ==
    /\ pc = "frame"
    /\ \E m \in CoggingMaps : m # cogging_torque_map /\ cogging_torque_map' = m
    /\ UNCHANGED <<params, state, load_torque, ctlVars, paused>>
    /\ EndGui

LoopCondOffByOne(k, step_multiplier) == k <= step_multiplier

\* for (int i = 0; i < params.step_multiplier; ++i)
LoopCond(k, step_multiplier) == k < step_multiplier

\* main: one iteration of the step loop.
StepIter ==
    /\ pc = "loop"
    /\ LoopCond(i, params.step_multiplier)
    /\ n_steps < MaxSteps
    /\ IF step_exits(state)
       THEN /\ pc' = "aborted"
            /\ UNCHANGED <<state, i, n_steps>>
       ELSE LET s1 == step(params, state)
            IN  /\ InBounds(s1)
                /\ state' = s1
                /\ i' = i + 1
                /\ n_steps' = n_steps + 1
                /\ pc' = pc
    /\ UNCHANGED <<params, load_torque, cogging_torque_map, ctlVars, paused,
                   should_step, frame_time0, histVars, extVars>>

\* main: the step loop is over, the frame is rendered, and the while loop
\* starts over; i goes out of scope.
EndFrame ==
    /\ pc = "loop"
    /\ ~LoopCond(i, params.step_multiplier)
    /\ pc' = "frame"
    /\ i' = 0
    /\ frame_time0' = 0
    /\ UNCHANGED <<simVars, ctlVars, paused, should_step, n_steps, histVars, extVars>>

\* main: process_sdl_imgui_events returns quit_flag, break; after the loop,
\* step(params, &state); return 0.
QuitAndFinalStep ==
    /\ pc = "frame"
    /\ n_steps < MaxSteps
    /\ IF step_exits(state)
       THEN /\ pc' = "aborted"
            /\ UNCHANGED <<state, n_steps>>
       ELSE LET s1 == step(params, state)
            IN  /\ InBounds(s1)
                /\ state' = s1
                /\ n_steps' = n_steps + 1
                /\ pc' = "exited"
    /\ UNCHANGED <<params, load_torque, cogging_torque_map, ctlVars, paused,
                   should_step, i, frame_time0, histVars, extVars>>

Next ==
    \/ GuiIdle
    \/ GuiPauseButton
    \/ GuiStepMultiplier
    \/ GuiSwitch
    \/ GuiLoadTorque
    \/ GuiCogging
    \/ StepIter
    \/ EndFrame
    \/ QuitAndFinalStep

Spec == Init /\ [][Next]_vars


\* --------------------------------------------- gate, PWM and controller
\* The tick of the scheduler: controller when due, gate dead time and PWM,
\* integrator, observer sample.  PWM level and duties are counted in steps of
\* 1/PwmSteps; times are in the time unit of dt.
PwmSteps == DutyOne

\* Phase advance of the six-step commutation, in twelfths of a turn:
\* Slider("Phase Advance", .., -0.5, 0.5).
kPhaseAdvanceMin == -6
kPhaseAdvanceMax == 6
PhaseAdvanceInputs == {-7, 1}

\* The PWM timer resolutions of the radio buttons, in bits: 0 is "Infinity",
\* 1 is "1 bit", 2 stands for the finer ones.
PwmResolutionBits == {0, 1, 2}

\* The standard commutation table: A+B-, A+C-, B+C-, B+A-, C+A-, C+B-.
kSixStepTable ==
    <<Vec3(HIGH, LOW, OFF), Vec3(HIGH, OFF, LOW), Vec3(OFF, HIGH, LOW),
      Vec3(LOW, HIGH, OFF), Vec3(LOW, OFF, HIGH), Vec3(OFF, LOW, HIGH)>>

six_step_sector_no_advance(theta_e, phase_advance) == theta_e % Turn

\* The sector of (theta_e + 2 pi phase_advance) mod 2 pi, a sector being a
\* sixth of a turn; the sum is taken in twelfths of a turn.
six_step_sector(theta_e, phase_advance) ==
    ((2 * theta_e + phase_advance) % (2 * Turn)) \div 2

\* Six-step: the (HIGH, LOW, OFF) triple of the sector.
six_step_commutate(theta_e, phase_advance) ==
    kSixStepTable[six_step_sector(theta_e, phase_advance) + 1]

quantize_duty_none(duty, resolution) == duty

\* Quantization to the nearest multiple of the resolution; a resolution of
\* 0 leaves the duty as it is.
quantize_duty(duty, resolution) ==
    IF resolution = 0 THEN duty
    ELSE ((2 * duty + resolution) \div (2 * resolution)) * resolution

\* The end of the space-vector modulation: clamp to [0, 1] and quantize per
\* PWM resolution.
emit_duties(duties, resolution) ==
    [k \in 1 .. 3 |->
        quantize_duty(Min(Max(duties[k], 0), DutyOne), resolution)]

FocDueEveryTick(time, last_tick_time, period) == TRUE

\* The controller runs only when time - last_tick_time >= period.
FocDue(time, last_tick_time, period) == time - last_tick_time >= period

\* One PI update: err = des - meas, integral <- integral + err * period.
PiUpdate(c, err, period) == [err |-> err, integral |-> c.integral + err * period]

\* One run of the controller at `time`, its pipeline coming out with `out`.
FocRun(f, time, out) ==
    [f EXCEPT !.last_tick_time = time,
              !.iq_controller = PiUpdate(f.iq_controller, out.iq_err, f.period),
              !.id_controller = PiUpdate(f.id_controller, out.id_err, f.period)]

\* Duty -> gate: commanded = (duty > level).
PwmCommanded(p) == [n \in Phases |-> IF p.duties[n + 1] > p.level THEN HIGH ELSE LOW]

\* level <- (level + dt * f_pwm) mod 1, one carrier step per tick.
PwmAdvance(p) == [p EXCEPT !.level = (p.level + 1) % PwmSteps]

GatePhaseNoLockout(commanded, last_commanded, actual, remaining, dead_time, dt) ==
    [actual |-> commanded, remaining |-> 0]

\* One phase of the gate model: a change of commanded forces actual OFF and
\* restarts the timer; otherwise a running timer is decremented by dt and,
\* when it reaches 0, actual takes the commanded value.
GatePhase(commanded, last_commanded, actual, remaining, dead_time, dt) ==
    IF commanded # last_commanded
    THEN [actual |-> OFF, remaining |-> dead_time]
    ELSE IF remaining > 0
         THEN LET r == Max(remaining - dt, 0)
              IN  [actual |-> IF r = 0 THEN commanded ELSE actual, remaining |-> r]
         ELSE [actual |-> actual, remaining |-> remaining]

\* The gate model over the three phases; commanded is remembered for the
\* next tick.  The actual gate states are the switches the integrator reads.
GateAdvance(g, commanded, actual, dt) ==
    LET ph == [n \in Phases |->
                  GatePhase(commanded[n], g.last_commanded[n], actual[n],
                            g.dead_time_remaining[n], g.dead_time, dt)]
    IN  [gate |-> [g EXCEPT !.commanded = commanded,
                            !.last_commanded = commanded,
                            !.dead_time_remaining = [n \in Phases |-> ph[n].remaining]],
         actual |-> [n \in Phases |-> ph[n].actual]]

\* History of the dead-time claim: per phase, the ticks since commanded last
\* toggled, the tick that saw the toggle included (0: no toggle so far).
HeldAdvance(h, g, commanded) ==
    [n \in Phases |->
        IF commanded[n] # g.last_commanded[n] THEN 1
        ELSE IF h[n] > 0 THEN h[n] + 1 ELSE 0]

\* One tick of the scheduler inside the per-frame loop.
TickIter ==
    /\ pc = "loop"
    /\ LoopCond(i, params.step_multiplier)
    /\ n_steps < MaxSteps
    /\ \E out \in FocOutputs :
        LET due == /\ commutation_mode = kCommutationModeFOC
                   /\ FocDue(state.time, foc.last_tick_time, foc.period)
            foc1 == IF due THEN FocRun(foc, state.time, out) ELSE foc
            pwm1 == IF due
                    THEN [pwm EXCEPT !.duties = emit_duties(out.duties, pwm.resolution)]
                    ELSE pwm
            commanded == IF commutation_mode = kCommutationModeFOC
                         THEN PwmCommanded(pwm1)
                         ELSE IF commutation_mode = kCommutationModeSixStep
                         THEN six_step_commutate(state.angle_electrical,
                                                 six_step_phase_advance)
                         ELSE gate.commanded
            g == GateAdvance(gate, commanded, state.switches, params.dt)
            s0 == [state EXCEPT !.switches = g.actual]
            s1 == step(params, s0)
        IN  /\ foc' = foc1
            /\ pwm' = PwmAdvance(pwm1)
            /\ gate' = g.gate
            /\ held' = HeldAdvance(held, gate, commanded)
            /\ foc_runs' = IF due THEN <<foc_runs[1] + 1, state.time>> ELSE foc_runs
            /\ IF step_exits(s0)
               THEN /\ pc' = "aborted"
                    /\ state' = s0
                    /\ UNCHANGED <<n_samples, i, n_steps>>
               ELSE /\ InBounds(s1)
                    /\ state' = s1
                    /\ n_samples' = n_samples + 1
                    /\ i' = i + 1
                    /\ n_steps' = n_steps + 1
                    /\ pc' = pc
    /\ UNCHANGED <<params, load_torque, cogging_torque_map, commutation_mode,
                   paused, should_step, frame_time0, extVars>>

\* run_gui, the Manual / FOC radio buttons.
GuiCommutationMode ==
    /\ pc = "frame"
    /\ \E m \in {kCommutationModeManual, kCommutationModeFOC} :
          m # commutation_mode /\ commutation_mode' = m
    /\ UNCHANGED <<simVars, gate, pwm, foc, paused>>
    /\ EndGui

\* The gates the operator drives by hand.  The gate model treats each phase
\* alike, and the third gate is driven by the controllers.
ManualPhases == {0, 1}

\* run_gui, manual mode: the HIGH / LOW radio buttons of one gate.
GuiManualCommand ==
    /\ pc = "frame"
    /\ commutation_mode = kCommutationModeManual
    /\ \E n \in ManualPhases :
          gate' = [gate EXCEPT !.commanded[n] = IF @ = HIGH THEN LOW ELSE HIGH]
    /\ UNCHANGED <<simVars, commutation_mode, pwm, foc, paused>>
    /\ EndGui

\* run_gui, Slider("Gate Dead Time (usec)", &dead_time_usec, 0.0f, 100).
GuiDeadTime ==
    /\ pc = "frame"
    /\ \E d \in DeadTimes :
          /\ d # gate.dead_time
          /\ gate' = [gate EXCEPT !.dead_time = d]
    /\ held' = [n \in Phases |-> 0]
    /\ UNCHANGED <<simVars, commutation_mode, pwm, foc, paused>>
    /\ should_step' = ~paused'
    /\ pc' = IF should_step' THEN "loop" ELSE "frame"
    /\ i' = 0
    /\ frame_time0' = IF should_step' THEN state'.time ELSE 0
    /\ UNCHANGED <<n_steps, n_samples, foc_runs, extVars>>

\* run_gui, FOC mode: order_of_magnitude_control("Update Period (sec)", ..).
GuiFocPeriod ==
    /\ pc = "frame"
    /\ commutation_mode = kCommutationModeFOC
    /\ \E t \in Periods :
          t # foc.period /\ foc' = [foc EXCEPT !.period = t]
    /\ UNCHANGED <<simVars, commutation_mode, gate, pwm, paused>>
    /\ EndGui

\* run_gui, the Six Step radio button.
GuiSixStepMode ==
    /\ pc = "frame"
    /\ commutation_mode # kCommutationModeSixStep
    /\ commutation_mode' = kCommutationModeSixStep
    /\ UNCHANGED <<simVars, gate, pwm, foc, paused>>
    /\ EndGui

\* run_gui, six-step mode: Slider("Phase Advance", .., -0.5, 0.5).
GuiPhaseAdvance ==
    /\ pc = "frame"
    /\ commutation_mode = kCommutationModeSixStep
    /\ \E v \in PhaseAdvanceInputs :
          LET w == Slider(v, kPhaseAdvanceMin, kPhaseAdvanceMax)
          IN  /\ w # six_step_phase_advance
              /\ six_step_phase_advance' = w
    /\ UNCHANGED <<simVars, ctlVars, paused, auto_pi_params, gui_tab>>
    /\ should_step' = ~paused'
    /\ pc' = IF should_step' THEN "loop" ELSE "frame"
    /\ i' = 0
    /\ frame_time0' = IF should_step' THEN state'.time ELSE 0
    /\ UNCHANGED <<n_steps, histVars, buffers, writes, csv>>

\* run_gui, "PWM Timer Resolution": 0 for "Infinity", else 2^-bits.
GuiPwmResolution ==
    /\ pc = "frame"
    /\ \E bits \in PwmResolutionBits :
          LET r == IF bits = 0 THEN 0 ELSE 2 ^ (DutyBits - bits)
          IN  /\ r # pwm.resolution
              /\ pwm' = [pwm EXCEPT !.resolution = r]
    /\ UNCHANGED <<simVars, commutation_mode, gate, foc, paused>>
    /\ EndGui

NextTick ==
    \/ GuiIdle
    \/ GuiPauseButton
    \/ GuiCommutationMode
    \/ GuiManualCommand
    \/ GuiDeadTime
    \/ GuiFocPeriod
    \/ TickIter
    \/ EndFrame
    \/ QuitAndFinalStep

\* The scheduler is explored on the motor whose dt is 2 time units.
InitTick == Init /\ params.dt = 2

SpecTick == InitTick /\ [][NextTick]_vars

\* The controllers: the operator picks the mode, the phase advance and the
\* PWM resolution, and the ticks run.
NextCtl ==
    \/ GuiIdle
    \/ GuiPauseButton
    \/ GuiCommutationMode
    \/ GuiSixStepMode
    \/ GuiPhaseAdvance
    \/ GuiPwmResolution
    \/ GuiDeadTime
    \/ TickIter
    \/ EndFrame
    \/ QuitAndFinalStep

SpecCtl == InitTick /\ [][NextCtl]_vars

\* ------------------------------------------------------------ observer
\* The rolling buffers that the plots and the CSV export read.  A gate state
\* is stored in halves, so that LOW is 0, HIGH is 2 and the -0.5 of an OFF gate
\* is -1.

\* What update_rolling_buffers may be handed besides the time: the board, the
\* motor and the controller at the end of a tick.
ObserverInputs ==
    {[board |-> [bus_voltage |-> 3,
                 gate |-> [actual |-> Vec3(HIGH, LOW, OFF), diode_active_voltage |-> 3],
                 pwm |-> [duties |-> <<2, 0, 1>>, level |-> 1]],
      motor |-> [phase_currents |-> Vec3(1, -1, 0), bEmfs |-> Vec3(0, 1, -1),
                 normed_bEmfs |-> Vec3(0, 1, -1), current_qd |-> <<-1, 1>>,
                 rotor_angular_vel |-> 1, torque |-> 2],
      foc |-> [iq_controller |-> [err |-> 1, integral |-> 2],
               id_controller |-> [err |-> -1, integral |-> 0]]],
     [board |-> [bus_voltage |-> 3,
                 gate |-> [actual |-> Vec3(LOW, LOW, LOW), diode_active_voltage |-> 3],
                 pwm |-> [duties |-> <<0, 0, 0>>, level |-> 0]],
      motor |-> [phase_currents |-> Vec3(0, 0, 0), bEmfs |-> Vec3(0, 0, 0),
                 normed_bEmfs |-> Vec3(0, 0, 0), current_qd |-> <<0, 0>>,
                 rotor_angular_vel |-> 0, torque |-> 0],
      foc |-> [iq_controller |-> [err |-> 0, integral |-> 0],
               id_controller |-> [err |-> 0, integral |-> 0]]]}

\* rolling_buffer_advance_idx: post-increment the write index, wrap at capacity.
rolling_buffer_advance_idx(ctx) ==
    IF ctx.next_idx + 1 >= kNumRollingPts
    THEN [next_idx |-> 0, wrap_around |-> TRUE]
    ELSE [ctx EXCEPT !.next_idx = ctx.next_idx + 1]

\* get_rolling_buffer_count: the valid entries.
get_rolling_buffer_count(ctx) ==
    IF ctx.wrap_around THEN kNumRollingPts ELSE ctx.next_idx

get_rolling_buffer_begin_zero(ctx) == 0

\* get_rolling_buffer_begin: the index of the oldest valid entry.
get_rolling_buffer_begin(ctx) ==
    IF ctx.wrap_around THEN ctx.next_idx ELSE 0

\* get_rolling_buffer_back: the index of the newest entry.
get_rolling_buffer_back(ctx) ==
    (ctx.next_idx + kNumRollingPts - 1) % kNumRollingPts

\* get_pole_voltages(bus_voltage, phase_currents, gate): HIGH is the bus, LOW
\* is 0, OFF is a diode drop beyond the rail the current flows to, and 0
\* with no current.
get_pole_voltages(bus_voltage, phase_currents, board_gate) ==
    [n \in Phases |->
        IF board_gate.actual[n] = HIGH THEN bus_voltage
        ELSE IF board_gate.actual[n] = LOW THEN 0
        ELSE IF phase_currents[n] > 0 THEN -board_gate.diode_active_voltage
        ELSE IF phase_currents[n] < 0 THEN bus_voltage + board_gate.diode_active_voltage
        ELSE 0]

\* get_phase_voltages(pole_voltages, bEmfs): the poles less the neutral.
get_phase_voltages(pole_voltages, bEmfs) ==
    [n \in Phases |-> pole_voltages[n] - NeutralVoltage(pole_voltages, bEmfs)]

\* park_transform * clarke_transform(phase_currents): the currents on the q
\* and d axes.  The axes do not lie on the angle grid of the model; the
\* projection comes with the sample of the motor.
ProjectQd(motor) == motor.current_qd

GateSampleRaw(gate_state) == 2 * gate_state

\* update_rolling_buffers, the gate channel: OFF is mapped to -0.5.  The
\* channel is counted in halves: LOW is 0, HIGH is 2, OFF is -1.
GateSample(gate_state) == IF gate_state = OFF THEN -1 ELSE 2 * gate_state

\* update_rolling_buffers, the power calculation: v * i over the HIGH gates.
PowerDraw(board, motor) ==
    LET term(n) == IF board.gate.actual[n] = HIGH
                   THEN board.bus_voltage * motor.phase_currents[n] ELSE 0
    IN  term(0) + term(1) + term(2)

update_rolling_buffers_no_advance(time, board, motor, foc_in, b) ==
    [b EXCEPT !.timestamps[b.ctx.next_idx] = time,
              !.torque[b.ctx.next_idx] = motor.torque]

\* void update_rolling_buffers(time, board, motor, foc, buffers)
update_rolling_buffers(time, board, motor, foc_in, b) ==
    LET next_idx == b.ctx.next_idx
        put3(ch, v) == [n \in Phases |-> [ch[n] EXCEPT ![next_idx] = v[n]]]
    IN  [ctx |-> rolling_buffer_advance_idx(b.ctx),
         timestamps |-> [b.timestamps EXCEPT ![next_idx] = time],
         phase_vs |-> put3(b.phase_vs,
                           get_phase_voltages(
                               get_pole_voltages(board.bus_voltage,
                                                 motor.phase_currents, board.gate),
                               motor.bEmfs)),
         phase_currents |-> put3(b.phase_currents, motor.phase_currents),
         bEmfs |-> put3(b.bEmfs, motor.bEmfs),
         normed_bEmfs |-> put3(b.normed_bEmfs, motor.normed_bEmfs),
         pwm_duties |-> put3(b.pwm_duties, [n \in Phases |-> board.pwm.duties[n + 1]]),
         pwm_level |-> [b.pwm_level EXCEPT ![next_idx] = board.pwm.level],
         gate_states |-> put3(b.gate_states,
                              [n \in Phases |-> GateSample(board.gate.actual[n])]),
         current_q |-> [b.current_q EXCEPT ![next_idx] = ProjectQd(motor)[1]],
         current_d |-> [b.current_d EXCEPT ![next_idx] = ProjectQd(motor)[2]],
         current_q_err |-> [b.current_q_err EXCEPT ![next_idx] = foc_in.iq_controller.err],
         current_q_integral |->
             [b.current_q_integral EXCEPT ![next_idx] = foc_in.iq_controller.integral],
         current_d_err |-> [b.current_d_err EXCEPT ![next_idx] = foc_in.id_controller.err],
         current_d_integral |->
             [b.current_d_integral EXCEPT ![next_idx] = foc_in.id_controller.integral],
         power_draw |-> [b.power_draw EXCEPT ![next_idx] = PowerDraw(board, motor)],
         rotor_angular_vel |->
             [b.rotor_angular_vel EXCEPT ![next_idx] = motor.rotor_angular_vel],
         torque |-> [b.torque EXCEPT ![next_idx] = motor.torque]]

\* Slider "Rolling History (sec)": the window lengths the operator picks, in
\* time units, and the length 0.
RollingHistories == {0, 1, 2, 20}

get_rolling_plot_params_no_clip(b, rolling_history) ==
    LET count == get_rolling_buffer_count(b.ctx)
        begin == get_rolling_buffer_begin(b.ctx)
    IN  [count |-> count, begin |-> begin,
         begin_time |-> IF count # 0 THEN b.timestamps[begin] ELSE 0,
         end_time |-> IF count # 0
                      THEN b.timestamps[get_rolling_buffer_back(b.ctx)] ELSE 0]

get_rolling_plot_params_last_row(b, rolling_history) ==
    LET count == get_rolling_buffer_count(b.ctx)
        begin == get_rolling_buffer_begin(b.ctx)
        begin_time == IF count # 0 THEN b.timestamps[begin] ELSE 0
        end_time == IF count # 0 THEN b.timestamps[count - 1] ELSE 0
    IN  [count |-> count, begin |-> begin,
         begin_time |-> Max(begin_time, end_time - rolling_history),
         end_time |-> end_time]

\* RollingPlotParams get_rolling_plot_params(buffers, rolling_history)
get_rolling_plot_params(b, rolling_history) ==
    LET count == get_rolling_buffer_count(b.ctx)
        begin == get_rolling_buffer_begin(b.ctx)
        begin_time == IF count # 0 THEN b.timestamps[begin] ELSE 0
        end_time == IF count # 0
                    THEN b.timestamps[get_rolling_buffer_back(b.ctx)] ELSE 0
    IN  [count |-> count, begin |-> begin,
         begin_time |-> Max(begin_time, end_time - rolling_history),
         end_time |-> end_time]

\* The text to_csv writes, token by token: a column name, a value, the
\* separator "," or the newline.
TextToken(name) == [kind |-> "text", s |-> name, v |-> 0]
NumToken(x) == [kind |-> "num", s |-> "", v |-> x]
SepToken == [kind |-> "sep", s |-> ",", v |-> 0]
NlToken == [kind |-> "nl", s |-> "\n", v |-> 0]

\* to_csv, the eight fields: name and array.
CsvFields(b) ==
    <<[first |-> "timestamp", second |-> b.timestamps],
      [first |-> "torque", second |-> b.torque],
      [first |-> "bEmf_a", second |-> b.bEmfs[0]],
      [first |-> "bEmf_b", second |-> b.bEmfs[1]],
      [first |-> "bEmf_c", second |-> b.bEmfs[2]],
      [first |-> "current_a", second |-> b.phase_currents[0]],
      [first |-> "current_b", second |-> b.phase_currents[1]],
      [first |-> "current_c", second |-> b.phase_currents[2]]>>

NeedsSeparatorAlways(col, size) == TRUE

\* if (col + 1 != fields.size()) ss << ","
NeedsSeparator(col, size) == col + 1 # size

\* One line of the text: for (col ..) { ss << cell; separator }; ss << "\n".
RECURSIVE WriteLine(_, _)
WriteLine(cells, col) ==
    IF col >= Len(cells) THEN <<NlToken>>
    ELSE <<cells[col + 1]>>
         \o (IF NeedsSeparator(col, Len(cells)) THEN <<SepToken>> ELSE <<>>)
         \o WriteLine(cells, col + 1)

\* for (int row = 0; row < num_rows; ++row): the value lines.
RECURSIVE WriteRows(_, _, _)
WriteRows(fields, row, num_rows) ==
    IF row >= num_rows THEN <<>>
    ELSE WriteLine([c \in 1 .. Len(fields) |-> NumToken(fields[c].second[row])], 0)
         \o WriteRows(fields, row + 1, num_rows)

\* std::string to_csv(const RollingBuffers& rolling_buffers)
to_csv(b) ==
    LET fields == CsvFields(b)
    IN  WriteLine([c \in 1 .. Len(fields) |-> TextToken(fields[c].first)], 0)
        \o WriteRows(fields, 0, get_rolling_buffer_count(b.ctx))

\* The end of a tick: one sample of the board, the motor and the controller
\* is appended at the time the tick has reached.
ObserverSample ==
    /\ writes < MaxWrites
    /\ \E in \in ObserverInputs :
          buffers' = update_rolling_buffers((writes + 1) * params.dt, in.board,
                                            in.motor, in.foc, buffers)
    /\ writes' = writes + 1
    /\ UNCHANGED <<simVars, ctlVars, paused, should_step, pc, i, n_steps,
                   frame_time0, histVars, csv, uiVars>>

\* The operator exports the buffers.
ExportCsv ==
    /\ csv' = to_csv(buffers)
    /\ UNCHANGED <<simVars, ctlVars, paused, should_step, pc, i, n_steps,
                   frame_time0, histVars, buffers, writes, uiVars>>

NextObs ==
    \/ ObserverSample
    \/ ExportCsv

SpecObs == Init /\ [][NextObs]_vars

\* ------------------------------------------------- operator edits
\* The tabs of the control window.  The widgets of a tab run only in the
\* frames that show it.  A slider is handed the value the operator drags it
\* to; <<>> stands for a slider that is not touched in the frame.

kNumPolePairsMin == 1
kNumPolePairsMax == 8
\* Slider("Rotor Moment of Inertia (kg m^2)", .., 0.1, 10), in units of 0.1.
kRotorInertiaMin == 1
kRotorInertiaMax == 100
\* Slider("Bus Voltage", .., 1.0, 120), in thirds of a volt.
kBusVoltageMin == 3
kBusVoltageMax == 360
\* order_of_magnitude_control: the mantissa slider (1.0f .. 9.99f, whole
\* mantissas here) and the default range of the exponent slider.
kMantissaMin == 1
kMantissaMax == 9
kExpMinDefault == -4
kExpMaxDefault == 4
kGainExpMin == -1
kGainExpMax == 6

\* What the operator drags the sliders to: below, inside and above the ranges.
PolePairInputs == {0, 1, 8, 9}
InertiaInputs == {0, 100, 101}
BusVoltageInputs == {0, 360, 363}
MantissaInputs == {<<>>, <<0>>, <<5>>}
ExponentInputs == {<<>>, <<-5>>, <<-3>>}
GainExponentInputs == {<<>>, <<-2>>, <<0>>}

RECURSIVE Pow10(_)
Pow10(e) == IF e <= 0 THEN 1 ELSE 10 * Pow10(e - 1)

\* int(log10(x)) brought down to the floor, for x >= 1 unit.
RECURSIVE FloorLog10(_)
FloorLog10(x) == IF x < 10 THEN 0 ELSE 1 + FloorLog10(x \div 10)

\* bool order_of_magnitude_control(label, controllee, exp_min, exp_max):
\* the value is split into mantissa and exponent, each has its slider, and
\* the value is written back as base * 10^integral_part.
order_of_magnitude_control(controllee, unit_exp, mantissa, exponent, exp_min, exp_max) ==
    LET integral_part == FloorLog10(controllee) + unit_exp
        base == controllee \div Pow10(FloorLog10(controllee))
        base1 == IF mantissa = <<>> THEN base
                 ELSE Slider(mantissa[1], kMantissaMin, kMantissaMax)
        integral_part1 == IF exponent = <<>> THEN integral_part
                          ELSE SliderInt(exponent[1], exp_min, exp_max)
    IN  base1 * Pow10(integral_part1 - unit_exp)

\* run_gui: the operator picks a tab; no widget of it is touched.
GuiTab ==
    /\ pc = "frame"
    /\ \E t \in {"controls", "system", "motor"} : t # gui_tab /\ gui_tab' = t
    /\ UNCHANGED <<simVars, ctlVars, paused, six_step_phase_advance, auto_pi_params>>
    /\ should_step' = ~paused'
    /\ pc' = IF should_step' THEN "loop" ELSE "frame"
    /\ i' = 0
    /\ frame_time0' = IF should_step' THEN state'.time ELSE 0
    /\ UNCHANGED <<n_steps, histVars, buffers, writes, csv>>

\* run_gui, the controls tab in FOC mode, "PI Params": the Auto checkbox;
\* with it set, make_motor_pi_params(10000, R, L) is called and its result
\* dropped; without it, the two gains have their order_of_magnitude_control.
GuiFocControls ==
    /\ pc = "frame"
    /\ gui_tab = "controls"
    /\ commutation_mode = kCommutationModeFOC
    /\ \E auto \in BOOLEAN, mp \in MantissaInputs, ep \in GainExponentInputs :
          /\ auto_pi_params' = auto
          /\ auto # auto_pi_params \/ (~auto /\ (mp # <<>> \/ ep # <<>>))
          /\ foc' = IF auto
                    THEN foc
                    ELSE [foc EXCEPT
                             !.i_controller_params.p_gain =
                                 order_of_magnitude_control(@, kGainUnitExp, mp, ep,
                                                            kGainExpMin, kGainExpMax),
                             !.i_controller_params.i_gain =
                                 order_of_magnitude_control(@, kGainUnitExp, <<>>, <<>>,
                                                            kGainExpMin, kGainExpMax)]
    /\ UNCHANGED <<simVars, commutation_mode, gate, pwm, paused,
                   six_step_phase_advance, gui_tab>>
    /\ should_step' = ~paused'
    /\ pc' = IF should_step' THEN "loop" ELSE "frame"
    /\ i' = 0
    /\ frame_time0' = IF should_step' THEN state'.time ELSE 0
    /\ UNCHANGED <<n_steps, histVars, buffers, writes, csv>>

\* run_gui, the motor tab: SliderInt("Num Pole Pairs", .., 1, 8).
GuiNumPolePairs ==
    /\ pc = "frame"
    /\ gui_tab = "motor"
    /\ \E v \in PolePairInputs :
          LET w == SliderInt(v, kNumPolePairsMin, kNumPolePairsMax)
          IN  /\ w # params.num_pole_pairs
              /\ params' = [params EXCEPT !.num_pole_pairs = w]
    /\ UNCHANGED <<state, load_torque, cogging_torque_map, ctlVars, paused>>
    /\ EndGui

\* run_gui, the motor tab: Slider("Rotor Moment of Inertia (kg m^2)", ..).
GuiRotorInertia ==
    /\ pc = "frame"
    /\ gui_tab = "motor"
    /\ \E v \in InertiaInputs :
          LET w == Slider(v, kRotorInertiaMin, kRotorInertiaMax)
          IN  /\ w # params.inertia_rotor
              /\ params' = [params EXCEPT !.inertia_rotor = w]
    /\ UNCHANGED <<state, load_torque, cogging_torque_map, ctlVars, paused>>
    /\ EndGui

\* run_gui, the motor tab: order_of_magnitude_control("Phase Inductance", ..).
GuiPhaseInductance ==
    /\ pc = "frame"
    /\ gui_tab = "motor"
    /\ \E m \in MantissaInputs, e \in ExponentInputs :
          LET w == order_of_magnitude_control(params.phase_inductance, kParamUnitExp,
                                              m, e, kExpMinDefault, kExpMaxDefault)
          IN  /\ w # params.phase_inductance
              /\ params' = [params EXCEPT !.phase_inductance = w]
    /\ UNCHANGED <<state, load_torque, cogging_torque_map, ctlVars, paused>>
    /\ EndGui

\* run_gui, the motor tab: order_of_magnitude_control("Phase Resistance", ..).
GuiPhaseResistance ==
    /\ pc = "frame"
    /\ gui_tab = "motor"
    /\ \E m \in MantissaInputs, e \in ExponentInputs :
          LET w == order_of_magnitude_control(params.phase_resistance, kParamUnitExp,
                                              m, e, kExpMinDefault, kExpMaxDefault)
          IN  /\ w # params.phase_resistance
              /\ params' = [params EXCEPT !.phase_resistance = w]
    /\ UNCHANGED <<state, load_torque, cogging_torque_map, ctlVars, paused>>
    /\ EndGui

\* run_gui, the system tab: Slider("Bus Voltage", .., 1.0, 120).
GuiBusVoltage ==
    /\ pc = "frame"
    /\ gui_tab = "system"
    /\ \E v \in BusVoltageInputs :
          LET w == Slider(v, kBusVoltageMin, kBusVoltageMax)
          IN  /\ w # params.bus_voltage
              /\ params' = [params EXCEPT !.bus_voltage = w]
    /\ UNCHANGED <<state, load_torque, cogging_torque_map, ctlVars, paused>>
    /\ EndGui

NextGui ==
    \/ GuiIdle
    \/ GuiPauseButton
    \/ GuiTab
    \/ GuiCommutationMode
    \/ GuiFocControls
    \/ GuiNumPolePairs
    \/ GuiRotorInertia
    \/ GuiPhaseInductance
    \/ GuiPhaseResistance
    \/ GuiBusVoltage
    \/ StepIter
    \/ EndFrame
    \/ QuitAndFinalStep

\* The edits are explored on the motor with one pole pair.
InitGui == Init /\ params.num_pole_pairs = 1

SpecGui == InitGui /\ [][NextGui]_vars

\* ------------------------------------------------- step on any state
\* step is a function of SimParams and SimState: it is applied here to states
\* that main does not construct, with any gates, currents, velocity and angle.
CurrentInputs == {-2, 0, 3}
VelocityInputs == {-1, 0, 2}
AngleInputs == {0, 1, 4}
BEmfShapes == {<<1, 0, 0, 0, 0>>, <<2, 0, 1, 0, 0>>}

\* Everything but the motor as constructed: no load, zero cogging, manual
\* commutation, all gates LOW, empty buffers.
InitControls ==
    /\ paused = FALSE
    /\ load_torque = 0
    /\ cogging_torque_map = ZeroCoggingMap
    /\ commutation_mode = kCommutationModeManual
    /\ gate = [commanded |-> [n \in Phases |-> LOW],
               last_commanded |-> [n \in Phases |-> LOW],
               dead_time |-> 0,
               dead_time_remaining |-> [n \in Phases |-> 0]]
    /\ pwm = [level |-> 0, duties |-> <<0, 0, 0>>, resolution |-> 0]
    /\ foc = [period |-> 2, last_tick_time |-> 0,
              i_controller_params |->
                  make_motor_pi_params(kAutoPiBandwidth, params.phase_resistance,
                                       params.phase_inductance),
              iq_controller |-> [err |-> 0, integral |-> 0],
              id_controller |-> [err |-> 0, integral |-> 0]]
    /\ i = 0
    /\ n_steps = 0
    /\ frame_time0 = 0
    /\ n_samples = 0
    /\ held = [n \in Phases |-> 0]
    /\ foc_runs = <<0, 0>>
    /\ buffers = init_rolling_buffers
    /\ writes = 0
    /\ csv = <<>>
    /\ six_step_phase_advance = 0
    /\ auto_pi_params = TRUE
    /\ gui_tab = "controls"

InitStep ==
    /\ \E c \in MotorConfigs, shape \in BEmfShapes :
          params = [dt |-> c.dt,
                    bus_voltage |-> 3,
                    i_diode_active |-> 1,
                    v_diode_active |-> 3,
                    normalized_bEmf_coeffs |-> shape,
                    phase_resistance |-> c.phase_resistance,
                    phase_inductance |-> 1,
                    inertia_rotor |-> 1,
                    num_pole_pairs |-> c.num_pole_pairs,
                    step_multiplier |-> kStepMultiplierMin]
    /\ \E sw \in [Phases -> SwitchStates], ic \in [Phases -> CurrentInputs],
          w \in VelocityInputs, a \in AngleInputs :
          state = [time |-> 0,
                   switches |-> sw,
                   i_coils |-> ic,
                   v_poles |-> [n \in Phases |-> 0],
                   bEmfs |-> [n \in Phases |-> 0],
                   v_neutral |-> 0,
                   v_phases |-> [n \in Phases |-> 0],
                   torque |-> 0,
                   angular_accel_rotor |-> 0,
                   angular_vel_rotor |-> w,
                   angle_rotor |-> a,
                   angle_electrical |-> Fmod(a * params.num_pole_pairs, 2 * kPI)]
    /\ should_step = TRUE
    /\ pc = "loop"
    /\ InitControls

\* step(params, &state), called once more.
StepCall ==
    /\ n_steps < MaxSteps
    /\ ~step_exits(state)
    /\ LET s1 == step(params, state)
       IN  /\ InBounds(s1)
           /\ state' = s1
    /\ n_steps' = n_steps + 1
    /\ UNCHANGED <<params, load_torque, cogging_torque_map, ctlVars, paused,
                   should_step, pc, i, frame_time0, histVars, extVars>>

NextStep == StepCall

SpecStep == InitStep /\ [][NextStep]_vars

\* ------------------------------------------- the gates, tick after tick
\* The gate part of the tick on its own, so that ticks can go on for ever:
\* the controller or the operator toggles a commanded gate, the operator
\* moves the dead-time slider, and each tick advances the gate model by dt
\* and the PWM carrier by one step.  The integrator and the observer do not
\* write the gates and are left out.
GateToggle ==
    /\ \E n \in Phases :
          gate' = [gate EXCEPT !.commanded[n] = IF @ = HIGH THEN LOW ELSE HIGH]
    /\ UNCHANGED <<simVars, commutation_mode, pwm, foc, paused, should_step, pc, i,
                   n_steps, frame_time0, histVars, extVars>>

GateSetDeadTime ==
    /\ \E d \in DeadTimes :
          /\ d # gate.dead_time
          /\ gate' = [gate EXCEPT !.dead_time = d]
    /\ UNCHANGED <<simVars, commutation_mode, pwm, foc, paused, should_step, pc, i,
                   n_steps, frame_time0, histVars, extVars>>

GateTick ==
    /\ LET g == GateAdvance(gate, gate.commanded, state.switches, params.dt)
       IN  /\ gate' = g.gate
           /\ state' = [state EXCEPT !.switches = g.actual]
    /\ pwm' = PwmAdvance(pwm)
    /\ UNCHANGED <<params, load_torque, cogging_torque_map, commutation_mode, foc,
                   paused, should_step, pc, i, n_steps, frame_time0, histVars,
                   extVars>>

NextGate == GateToggle \/ GateSetDeadTime \/ GateTick

\* Ticks keep coming.
InitGate == InitTick /\ ~paused

SpecGate == InitGate /\ [][NextGate]_vars /\ WF_vars(GateTick)

\* ------------------------------------------- the back-EMF curve editor
\* The back-EMF coefficients are counted in units of 1 / kCoeffUnitsPerOne.
\* The ratios the window shows are exact fractions <<numerator, denominator>>
\* in lowest terms.
kCoeffUnitsPerOne == 1000000
kOverallScale == 1000
kOverallScaleMin == 1
kOverallScaleMax == 500

\* The coefficients the motor may start with, the positions the operator
\* drags the overall-scale slider to, and the ratios dragged to on a harmonic
\* slider: below the range, inside it, above it.
BEmfCoeffInputs == {<<1000, 0, 0, 0, 0>>, <<2000, 1000, 0, 0, 500>>}
OverallScaleInputs == {<<>>, <<0>>, <<2>>, <<501>>}
HarmonicInputs == {<<-1, 2>>, <<1, 2>>, <<3, 2>>}
BEmfPresets == {"none", "Sine Wave", "Trapezoid"}

RECURSIVE Gcd(_, _)
Gcd(a, b) == IF b = 0 THEN a ELSE Gcd(b, a % b)

\* The quotient num / den, den not 0, as a fraction in lowest terms with a
\* positive denominator.
Frac(num, den) ==
    LET g == Gcd(Abs(num), Abs(den))
        sgn == IF den < 0 THEN -1 ELSE 1
    IN  <<(sgn * num) \div g, (sgn * den) \div g>>

\* The Trapezoid preset: 0.278, 0.119, 0.053, 0.029.
kTrapezoid == <<Frac(278, 1000), Frac(119, 1000), Frac(53, 1000), Frac(29, 1000)>>

\* to_gui_scale: out = in; out(i) /= in(0) for i = 1 .. 4.
to_gui_scale(in) ==
    [scale |-> in[1], ratios |-> [k \in 1 .. 4 |-> Frac(in[k + 1], in[1])]]

from_gui_scale_no_rescale(in) ==
    <<in.scale>> \o [k \in 1 .. 4 |->
                        (in.ratios[k][1] * kCoeffUnitsPerOne) \div in.ratios[k][2]]

\* from_gui_scale: out = in; out(i) *= in(0) for i = 1 .. 4.
from_gui_scale(in) ==
    <<in.scale>> \o [k \in 1 .. 4 |-> (in.ratios[k][1] * in.scale) \div in.ratios[k][2]]

\* bool ScaledSlider(scale, label, scalar, low, high): the slider works on
\* scalar * scale and the result is divided by scale again; a position the
\* operator drags to lies within [low, high].
ScaledSlider(scale, scalar, position, low, high) ==
    LET wrapped == scalar * scale
        wrapped1 == IF position = <<>> THEN wrapped
                    ELSE Slider(position[1], low, high) * kCoeffUnitsPerOne
    IN  wrapped1 \div scale

\* Slider(label, &gui_scale(i), 0, 1) on a ratio.
SliderRatio(ratio, dragged) ==
    IF dragged = <<>> THEN ratio
    ELSE IF dragged[1] < 0 THEN Frac(0, 1)
    ELSE IF dragged[1] > dragged[2] THEN Frac(1, 1)
    ELSE Frac(dragged[1], dragged[2])

\* void run_advanced_motor_config(MotorState* motor_ptr), the "Back EMF Curve"
\* tab: the coefficients after one frame in which the operator presses a
\* preset button or none, drags the overall-scale slider or not, and drags
\* the slider of harmonic number harmonic (0: none) to dragged.
run_advanced_motor_config(coeffs, preset, position, harmonic, dragged) ==
    LET gui_scale0 == to_gui_scale(coeffs)
        gui_scale1 ==
            IF preset = "Sine Wave"
            THEN [gui_scale0 EXCEPT !.ratios = [k \in 1 .. 4 |-> Frac(0, 1)]]
            ELSE IF preset = "Trapezoid"
            THEN [gui_scale0 EXCEPT !.ratios = kTrapezoid]
            ELSE gui_scale0
        gui_scale2 ==
            [gui_scale1 EXCEPT
                !.scale = ScaledSlider(kOverallScale, @, position,
                                       kOverallScaleMin, kOverallScaleMax)]
        gui_scale3 ==
            [gui_scale2 EXCEPT
                !.ratios = [k \in 1 .. 4 |->
                               SliderRatio(@[k], IF k = harmonic THEN dragged
                                                 ELSE <<>>)]]
    IN  from_gui_scale(gui_scale3)

\* One frame with the "Back EMF Curve" tab open.
GuiBackEmfCurve ==
    /\ \E preset \in BEmfPresets, position \in OverallScaleInputs,
          harmonic \in 0 .. 4, dragged \in HarmonicInputs :
          params' = [params EXCEPT
                        !.normalized_bEmf_coeffs =
                            run_advanced_motor_config(@, preset, position,
                                                      harmonic, dragged)]
    /\ UNCHANGED <<state, load_torque, cogging_torque_map, ctlVars, paused,
                   should_step, pc, i, n_steps, frame_time0, histVars, extVars>>

NextBEmf == GuiBackEmfCurve

InitBEmf ==
    /\ \E c \in MotorConfigs, coeffs \in BEmfCoeffInputs :
          params = [dt |-> c.dt,
                    bus_voltage |-> 3,
                    i_diode_active |-> 1,
                    v_diode_active |-> 3,
                    normalized_bEmf_coeffs |-> coeffs,
                    phase_resistance |-> c.phase_resistance,
                    phase_inductance |-> 1,
                    inertia_rotor |-> 1,
                    num_pole_pairs |-> c.num_pole_pairs,
                    step_multiplier |-> kStepMultiplierMin]
    /\ init_sim_state
    /\ should_step = FALSE
    /\ pc = "frame"
    /\ InitControls

SpecBEmf == InitBEmf /\ [][NextBEmf]_vars

\* ------------------------------------------------------------- claims
\* A transition that is one call of step.
IsStep == n_steps' = n_steps + 1

Zero3 == [n \in Phases |-> 0]

\* C1: after any integrator step, rotor_angle and electrical_angle lie in
\* [0, 2*pi), also when the rotor turns backwards.
C1_RotorWrap ==
    n_steps > 0 =>
        /\ state.angle_rotor \in 0 .. Turn - 1
        /\ state.angle_electrical \in 0 .. Turn - 1

\* C2: for a gate that is OFF and a phase current beyond the diode threshold,
\* step sets the pole voltage to -v_diode_active when the current is positive
\* and to bus_voltage + v_diode_active when it is negative.
C2_OffPoleVoltage ==
    [][IsStep =>
        \A n \in Phases :
            (state.switches[n] = OFF /\ Abs(state.i_coils[n]) > params.i_diode_active) =>
                /\ state.i_coils[n] > 0 =>
                       state'.v_poles[n] = -params.v_diode_active
                /\ state.i_coils[n] < 0 =>
                       state'.v_poles[n] = params.bus_voltage + params.v_diode_active]_vars

\* The no-drive equilibrium: all gates LOW, no current, rotor at rest, no
\* cogging, no load.
NoDrive ==
    /\ \A n \in Phases : state.switches[n] = LOW
    /\ state.i_coils = Zero3
    /\ state.angular_vel_rotor = 0
    /\ cogging_torque_map = ZeroCoggingMap
    /\ load_torque = 0

\* C5: a step taken in the no-drive equilibrium leaves the three phase
\* currents, the torque and the angular velocity exactly 0 and the rotor where
\* it is, so the equilibrium holds in the next state too.
C5_NoDriveEquilibrium ==
    [][(IsStep /\ NoDrive) =>
        /\ state'.i_coils = Zero3
        /\ state'.torque = 0
        /\ state'.angular_accel_rotor = 0
        /\ state'.angular_vel_rotor = 0
        /\ state'.angle_rotor = state.angle_rotor
        /\ NoDrive']_vars

\* C5, the case: two steps of one frame have run in the equilibrium.
C5_Witness ==
    /\ pc = "loop"
    /\ i >= 2
    /\ NoDrive
    /\ state.time = 2 * params.dt

\* Linear interpolation into the cyclic cogging map, on the grid of the model.
CoggingTorque(map, rotor_angle) == map[rotor_angle % Turn]

\* C6: the torque a step stores is the electromagnetic torque (updated currents
\* times the normed back-EMFs of the pre-step angle) plus the cogging torque at
\* the rotor angle minus the load torque, and it is what accelerates the rotor.
C6_TotalTorque ==
    [][IsStep =>
        /\ state'.torque =
               Dot3(state'.i_coils, NormalizedBEmfs(params, state))
               + CoggingTorque(cogging_torque_map, state.angle_rotor)
               - load_torque
        /\ state'.angular_accel_rotor * params.inertia_rotor = state'.torque]_vars

\* C7: every tick ends with exactly one observer sample appended before the
\* next tick starts: at every tick boundary as many samples as steps.
C7_TickOrder ==
    pc \in {"loop", "frame"} => n_samples = n_steps

\* C9: a call of step advances time by exactly dt; the step loop of a frame
\* that is not paused runs exactly step_multiplier times, so time advances by
\* step_multiplier * dt in the frame; step_multiplier stays within [1, 5000].
C9_FrameAdvance ==
    [][/\ IsStep => state'.time = state.time + params.dt
       /\ ~IsStep => state'.time = state.time
       /\ (pc = "frame" /\ ~paused') => (pc' \in {"loop", "exited"})
       /\ (pc = "loop" /\ pc' = "frame") =>
              /\ i = params.step_multiplier
              /\ state.time = frame_time0 + params.step_multiplier * params.dt
       /\ pc = "loop" => params'.step_multiplier = params.step_multiplier
       /\ params'.step_multiplier \in kStepMultiplierMin .. kStepMultiplierMax]_vars

\* C9, the case: the step loop of a frame has run a step multiplier of 2 or
\* more to its end.
C9_Witness ==
    /\ pc = "loop"
    /\ params.step_multiplier >= 2
    /\ i = params.step_multiplier
    /\ state.time = frame_time0 + 2 * params.dt

\* C10: while paused, no step: no transition from a paused state changes the
\* simulation time or the motor state, the shutdown included.
C10_PausedNoStep ==
    [][paused =>
        /\ state'.time = state.time
        /\ state'.i_coils = state.i_coils
        /\ state'.angular_vel_rotor = state.angular_vel_rotor
        /\ state'.angle_rotor = state.angle_rotor
        /\ n_steps' = n_steps]_vars

\* A transition that is one tick of the scheduler.
IsTick == n_samples' = n_samples + 1

\* ceil(a / b) for a >= 0, b > 0.
CeilDiv(a, b) == (a + b - 1) \div b

\* C3: once commanded has toggled and is held, actual is OFF for exactly
\* ceil(dead_time / dt) ticks and equals commanded afterwards.
C3_DeadTimeTicks ==
    \A n \in Phases :
        held[n] > 0 =>
            /\ held[n] <= CeilDiv(gate.dead_time, params.dt) => state.switches[n] = OFF
            /\ held[n] > CeilDiv(gate.dead_time, params.dt) =>
                   state.switches[n] = gate.last_commanded[n]

\* C4: the actual gate never goes from HIGH to LOW or from LOW to HIGH in one
\* tick; a tick that sees commanded changed forces actual OFF and restarts the
\* timer at dead_time; actual leaves OFF only for the commanded value and
\* only with the timer at 0; the timer is never negative.
C4_GateSafety ==
    [][\A n \in Phases :
        /\ ~(state.switches[n] = HIGH /\ state'.switches[n] = LOW)
        /\ ~(state.switches[n] = LOW /\ state'.switches[n] = HIGH)
        /\ gate'.dead_time_remaining[n] >= 0
        /\ (IsTick /\ gate'.last_commanded[n] # gate.last_commanded[n]) =>
               /\ state'.switches[n] = OFF
               /\ gate'.dead_time_remaining[n] = gate.dead_time
        /\ (state.switches[n] = OFF /\ state'.switches[n] # OFF) =>
               /\ state'.switches[n] = gate'.last_commanded[n]
               /\ gate'.dead_time_remaining[n] = 0]_vars

\* C4, the case: a gate went through its lockout and now is HIGH.
C4_Witness ==
    \E n \in Phases :
        /\ held[n] >= 2
        /\ gate.dead_time > 0
        /\ state.switches[n] = HIGH

\* C8: the controller runs in a tick only in FOC mode with
\* time - last_tick_time >= period, so a run is at least period after the run
\* before it; a tick in which it does not run leaves the PWM duties and the
\* PI integrals as they are, and so does everything that is not a tick.
C8_FocGating ==
    [][/\ foc_runs' # foc_runs =>
              /\ IsTick
              /\ commutation_mode = kCommutationModeFOC
              /\ state.time - foc.last_tick_time >= foc.period
              /\ foc_runs[1] > 0 => state.time - foc_runs[2] >= foc.period
       /\ foc_runs' = foc_runs =>
              /\ pwm'.duties = pwm.duties
              /\ foc'.iq_controller.integral = foc.iq_controller.integral
              /\ foc'.id_controller.integral = foc.id_controller.integral]_vars

\* C8, the case: the controller has run twice.
C8_Witness == foc_runs[1] >= 2

\* A gate that is OFF with the phase current within the diode threshold.
Degenerate(s, p, n) == s.switches[n] = OFF /\ Abs(s.i_coils[n]) <= p.i_diode_active

\* C19: a step that finds a gate OFF with the phase current within the diode
\* threshold (zero included) does not abort, gives that pole one rail voltage
\* determined by the state, counts one more warning and completes.
C19_DegenerateOff ==
    [][\A n \in Phases :
        (IsStep /\ Degenerate(state, params, n)) =>
            /\ pc' # "aborted"
            /\ state'.v_poles[n] = (IF state.i_coils[n] > 0 THEN 0 ELSE params.bus_voltage)
            /\ state'.time = state.time + params.dt
            /\ warning_count(state') = warning_count(state) + 1]_vars

\* The part of C19 that the integrator does: no abort, a rail determined by
\* the state, and the step completes.
C19_RailOnly ==
    [][\A n \in Phases :
        (IsStep /\ Degenerate(state, params, n)) =>
            /\ pc' # "aborted"
            /\ state'.v_poles[n] = (IF state.i_coils[n] > 0 THEN 0 ELSE params.bus_voltage)
            /\ state'.time = state.time + params.dt]_vars

C12_CountAndIndex ==
    /\ get_rolling_buffer_count(buffers.ctx) = Min(writes, kNumRollingPts)
    /\ buffers.ctx.next_idx = writes % kNumRollingPts
    /\ buffers.ctx.next_idx \in 0 .. kNumRollingPts - 1

\* C12, the case: more writes than the capacity, the write index past 0.
C12_Witness ==
    /\ writes > kNumRollingPts
    /\ buffers.ctx.next_idx # 0

\* The time of the k-th sample (k = 1 is the first one written).
SampleTime(k) == k * params.dt

\* C13: with a count above 0, begin is the index of the oldest sample still
\* stored and back the index of the newest, both within [0, capacity); the
\* count entries from begin, wrapping, end at back; get_rolling_plot_params
\* reads the begin and end times there.
C13_BeginAndBack ==
    LET count == get_rolling_buffer_count(buffers.ctx)
        begin == get_rolling_buffer_begin(buffers.ctx)
        back == get_rolling_buffer_back(buffers.ctx)
        plot == get_rolling_plot_params(buffers, SampleTime(writes))
    IN  count > 0 =>
            /\ begin \in 0 .. kNumRollingPts - 1
            /\ back \in 0 .. kNumRollingPts - 1
            /\ buffers.timestamps[begin] = SampleTime(writes - count + 1)
            /\ buffers.timestamps[back] = SampleTime(writes)
            /\ (begin + count - 1) % kNumRollingPts = back
            /\ \A k \in 0 .. count - 1 :
                   buffers.timestamps[(begin + k) % kNumRollingPts]
                       = SampleTime(writes - count + 1 + k)
            /\ plot.begin = begin
            /\ plot.count = count
            /\ plot.begin_time = SampleTime(writes - count + 1)
            /\ plot.end_time = SampleTime(writes)

\* C13, the case: the buffers have wrapped and the oldest sample is not at 0.
C13_Witness ==
    /\ buffers.ctx.wrap_around
    /\ get_rolling_buffer_begin(buffers.ctx) \notin {0, kNumRollingPts - 1}
    /\ get_rolling_buffer_back(buffers.ctx) # kNumRollingPts - 1

\* The text of to_csv has 16 tokens a line: eight cells, seven separators and
\* the newline.  The value rows of a text, and the timestamp of the r-th.
CsvRows(text) == Len(text) \div 16 - 1
CsvTimestamp(text, r) == text[16 * r + 1].v

\* C14: the rows of to_csv are in chronological order, also after the buffers
\* have wrapped: the timestamps increase strictly from the first row to the
\* last, and the first row is the oldest valid sample.
C14_CsvChronological ==
    [][csv' # csv =>
        /\ \A r \in 1 .. CsvRows(csv') - 1 :
               CsvTimestamp(csv', r) < CsvTimestamp(csv', r + 1)
        /\ CsvRows(csv') > 0 =>
               CsvTimestamp(csv', 1)
                   = SampleTime(writes - get_rolling_buffer_count(buffers.ctx) + 1)]_vars

\* C14 for buffers that have not wrapped.
C14_BeforeWrap ==
    [][(csv' # csv /\ ~buffers.ctx.wrap_around) =>
        /\ \A r \in 1 .. CsvRows(csv') - 1 :
               CsvTimestamp(csv', r) < CsvTimestamp(csv', r + 1)
        /\ CsvRows(csv') > 0 => CsvTimestamp(csv', 1) = SampleTime(1)]_vars

CsvColumnNames ==
    <<"timestamp", "torque", "bEmf_a", "bEmf_b", "bEmf_c",
      "current_a", "current_b", "current_c">>

\* C15: to_csv writes one header line with the eight column names in order,
\* then exactly count rows; every line has eight cells separated by seven
\* commas and ends with a newline; empty buffers give the header line only.
C15_CsvShape ==
    [][csv' # csv =>
        LET count == get_rolling_buffer_count(buffers.ctx)
        IN  /\ Len(csv') = 16 * (count + 1)
            /\ \A c \in 1 .. 8 : csv'[2 * c - 1] = TextToken(CsvColumnNames[c])
            /\ \A line \in 0 .. count :
                   /\ \A c \in 1 .. 7 : csv'[16 * line + 2 * c] = SepToken
                   /\ csv'[16 * line + 16] = NlToken
                   /\ line > 0 =>
                          \A c \in 1 .. 8 : csv'[16 * line + 2 * c - 1].kind = "num"]_vars

\* C15, the case: full buffers have been exported.
C15_Witness ==
    /\ Len(csv) = 16 * (kNumRollingPts + 1)
    /\ writes > kNumRollingPts

\* C17: with automatic PI tuning enabled, after a frame that shows the FOC
\* controls the gains are p_gain = bandwidth * L and i_gain = bandwidth * R
\* for the R and L the motor has now.
C17_AutoPiGains ==
    (gui_tab = "controls" /\ commutation_mode = kCommutationModeFOC /\ auto_pi_params) =>
        /\ foc.i_controller_params.p_gain = kAutoPiBandwidth * params.phase_inductance
        /\ foc.i_controller_params.i_gain = kAutoPiBandwidth * params.phase_resistance

\* C18: whatever the operator edits, R, L, the inertia and the bus voltage stay
\* above 0 and the pole pairs within 1..8, so no step divides by an inductance
\* or an inertia that is zero or negative.
C18_ValidParams ==
    /\ params.phase_resistance > 0
    /\ params.phase_inductance > 0
    /\ params.inertia_rotor > 0
    /\ params.bus_voltage > 0
    /\ params.num_pole_pairs \in kNumPolePairsMin .. kNumPolePairsMax

\* C18, the case: a step has run on parameters the operator dragged to the
\* ends of their sliders and beyond.
C18_Witness ==
    /\ n_steps >= 1
    /\ pc = "loop"
    /\ params.num_pole_pairs = kNumPolePairsMax
    /\ params.inertia_rotor = kRotorInertiaMax
    /\ params.phase_inductance = 10
    /\ params.phase_resistance = 5
    /\ params.bus_voltage = kBusVoltageMax

\* C11: every duty the controller writes is within [0, 1] and, for a PWM
\* resolution r > 0, a multiple of r; with r = 1/2 it is 0, 1/2 or 1.
C11_QuantizedDuties ==
    [][foc_runs' # foc_runs =>
        \A k \in 1 .. 3 :
            /\ pwm'.duties[k] \in 0 .. DutyOne
            /\ pwm.resolution > 0 => pwm'.duties[k] % pwm.resolution = 0
            /\ 2 * pwm.resolution = DutyOne =>
                   pwm'.duties[k] \in {0, DutyOne \div 2, DutyOne}]_vars

\* C11, the case: the controller has run with the 1-bit resolution and a duty
\* came out at 1/2.
C11_Witness ==
    /\ foc_runs[1] >= 1
    /\ 2 * pwm.resolution = DutyOne
    /\ \E k \in 1 .. 3 : 2 * pwm.duties[k] = DutyOne

\* The phase driven HIGH and the phase driven LOW in the six sectors, in the
\* order A+B-, A+C-, B+C-, B+A-, C+A-, C+B- (A, B, C being 0, 1, 2).
SectorOrder == <<<<0, 1>>, <<0, 2>>, <<1, 2>>, <<1, 0>>, <<2, 0>>, <<2, 1>>>>

\* The triple that drives phase hi HIGH, phase lo LOW and the third OFF.
Drive(hi, lo) == [n \in Phases |-> IF n = hi THEN HIGH ELSE IF n = lo THEN LOW ELSE OFF]

\* C16: in six-step mode the controller commands one phase HIGH, one LOW and
\* one OFF, for every electrical angle and every phase advance within
\* [-0.5, 0.5]; as (theta_e + 2 pi phase_advance) mod 2 pi grows through a
\* turn the sectors come in the order A+B-, A+C-, B+C-, B+A-, C+A-, C+B-.
\* The table does not depend on the state: it is examined over all angles
\* and phase advances on the steps that set the phase advance, which stays
\* within [-0.5, 0.5]; each six-step tick commands the triple of the sector
\* of its angle.
C16_SixStep ==
    [][/\ six_step_phase_advance' # six_step_phase_advance =>
          /\ six_step_phase_advance' \in kPhaseAdvanceMin .. kPhaseAdvanceMax
          /\ \A phase_advance \in kPhaseAdvanceMin .. kPhaseAdvanceMax :
                 \A theta_e \in -(Turn - 1) .. Turn - 1 :
                     LET x == (2 * theta_e + phase_advance) % (2 * Turn)
                         t == six_step_commutate(theta_e, phase_advance)
                     IN  /\ Cardinality({n \in Phases : t[n] = HIGH}) = 1
                         /\ Cardinality({n \in Phases : t[n] = LOW}) = 1
                         /\ Cardinality({n \in Phases : t[n] = OFF}) = 1
                         /\ t = Drive(SectorOrder[x \div 2 + 1][1],
                                      SectorOrder[x \div 2 + 1][2])
       /\ (IsTick /\ commutation_mode = kCommutationModeSixStep) =>
              LET x == (2 * state.angle_electrical + six_step_phase_advance)
                           % (2 * Turn)
              IN  gate'.commanded = Drive(SectorOrder[x \div 2 + 1][1],
                                          SectorOrder[x \div 2 + 1][2])]_vars

\* C16, the case: a six-step tick at electrical angle 0 with the phase
\* advance at -0.5 has commanded B+A-, the sector half a turn ahead of A+B-.
C16_Witness ==
    /\ commutation_mode = kCommutationModeSixStep
    /\ six_step_phase_advance = kPhaseAdvanceMin
    /\ n_steps >= 1
    /\ state.angle_electrical = 0
    /\ gate.commanded = Drive(1, 0)

\* C21: a step leaves the simulation parameters (dt, bus voltage, R, L,
\* inertia, pole pairs, back-EMF coefficients, step multiplier) and the gate
\* and switch states as they are; it writes the time, the pole, neutral and
\* phase voltages, the back-EMFs, the phase currents, the torque and the rotor
\* kinematic state, and nothing else of the simulation.
C21_StepFrame ==
    [][IsStep =>
        /\ params' = params
        /\ state'.switches = state.switches
        /\ gate' = gate
        /\ UNCHANGED <<pwm, foc, commutation_mode, load_torque, cogging_torque_map>>
        /\ state'.time = state.time + params.dt]_vars

\* C21, the case: a step with a gate HIGH and a step multiplier that is not
\* the default has driven currents through the coils.
C21_Witness ==
    /\ n_steps >= 1
    /\ params.step_multiplier = 2
    /\ \E n \in Phases : state.switches[n] = HIGH
    /\ \E n \in Phases : state.i_coils[n] # 0

\* C22: inside one step the computations come in the order pole voltages,
\* back-EMFs, neutral voltage, phase voltages, current derivative, current
\* update, torque, angular acceleration, angular velocity, rotor angle,
\* electrical angle.  The pole voltages and the three current derivatives
\* come from the currents before the step, the back-EMFs from the angle and
\* the velocity before the step; the torque takes the updated currents with
\* the back-EMF shape of the angle before the step, and the rotor angle
\* advances by the updated angular velocity.
C22_StepOrder ==
    [][IsStep =>
        LET shape == NormalizedBEmfs(params, state)
        IN  /\ \A n \in Phases :
                  /\ state'.v_poles[n] =
                         PoleVoltage(params, state.switches[n], state.i_coils[n])
                  /\ state'.bEmfs[n] = shape[n] * state.angular_vel_rotor
                  /\ state'.v_phases[n] = state'.v_poles[n] - state'.v_neutral
                  /\ params.phase_inductance * (state'.i_coils[n] - state.i_coils[n]) =
                         params.dt * (state'.v_phases[n] - state'.bEmfs[n]
                                      - state.i_coils[n] * params.phase_resistance)
            /\ 3 * state'.v_neutral = Sum3(state'.v_poles) - Sum3(state'.bEmfs)
            /\ state'.torque = Dot3(state'.i_coils, shape)
            /\ params.inertia_rotor * state'.angular_accel_rotor = state'.torque
            /\ state'.angular_vel_rotor =
                   state.angular_vel_rotor + state'.angular_accel_rotor * params.dt
            /\ state'.angle_rotor =
                   Fmod(state.angle_rotor + state'.angular_vel_rotor * params.dt, Turn)
            /\ state'.angle_electrical =
                   Fmod(state'.angle_rotor * params.num_pole_pairs, Turn)]_vars

\* C22, the case: a later step found the rotor turning and the coils carrying
\* current, and changed the torque, the velocity and the angle.
C22_Witness ==
    /\ n_steps >= 2
    /\ state.torque # 0
    /\ state.angular_vel_rotor # state.angular_accel_rotor * params.dt
    /\ state.angular_vel_rotor # 0
    /\ state.angle_rotor # 0
    /\ \E n \in Phases : state.bEmfs[n] # 0

C24_GateLiveness ==
    \A n \in Phases : \A c \in {LOW, HIGH} :
        <>[](gate.commanded[n] = c) => <>[](state.switches[n] = c)

\* The timestamp of the k-th oldest sample held, k from 0: read from begin,
\* wrapping at the capacity.
TimestampFromBegin(b, k) ==
    b.timestamps[(get_rolling_buffer_begin(b.ctx) + k) % kNumRollingPts]

\* C25: with one sample appended per tick and the time growing by dt per
\* tick, the timestamps in the ring buffer, read from begin for count entries
\* with wrap-around, are strictly increasing and consecutive ones differ by
\* exactly dt.
C25_TimestampSpacing ==
    \A k \in 0 .. get_rolling_buffer_count(buffers.ctx) - 2 :
        /\ TimestampFromBegin(buffers, k) < TimestampFromBegin(buffers, k + 1)
        /\ TimestampFromBegin(buffers, k + 1) - TimestampFromBegin(buffers, k) = params.dt

\* C25, the case: the buffer is full, has wrapped, and its oldest sample is
\* not at index 0.
C25_Witness ==
    /\ writes > kNumRollingPts
    /\ get_rolling_buffer_count(buffers.ctx) = kNumRollingPts
    /\ get_rolling_buffer_begin(buffers.ctx) # 0
    /\ TimestampFromBegin(buffers, 0) = (writes - kNumRollingPts + 1) * params.dt

\* C26: get_rolling_plot_params on an empty buffer reads no timestamp and
\* returns begin_time = end_time = 0; on a buffer that is not empty, with
\* rolling_history >= 0, end_time is the timestamp of the newest sample and
\* begin_time the larger of the timestamp of the oldest sample and
\* end_time - rolling_history; so begin_time <= end_time and
\* end_time - begin_time <= rolling_history.
C26_PlotParams ==
    \A rolling_history \in RollingHistories :
        LET count == get_rolling_buffer_count(buffers.ctx)
            plot == get_rolling_plot_params(buffers, rolling_history)
            other == [buffers EXCEPT
                         !.timestamps = [k \in DOMAIN buffers.timestamps |-> 7]]
        IN  /\ count = 0 =>
                   /\ plot.begin_time = 0
                   /\ plot.end_time = 0
                   /\ get_rolling_plot_params(other, rolling_history) = plot
            /\ count > 0 =>
                   /\ plot.end_time = SampleTime(writes)
                   /\ plot.begin_time =
                          Max(SampleTime(writes - count + 1),
                              plot.end_time - rolling_history)
            /\ plot.begin_time <= plot.end_time
            /\ plot.end_time - plot.begin_time <= rolling_history

\* C26, the case: the buffer has wrapped and the window is shorter than the
\* span of the samples held, so begin_time is cut to end_time less the window.
C26_Witness ==
    /\ writes > kNumRollingPts
    /\ \E rolling_history \in RollingHistories :
          LET plot == get_rolling_plot_params(buffers, rolling_history)
          IN  /\ plot.begin_time > TimestampFromBegin(buffers, 0)
              /\ plot.begin_time < plot.end_time
              /\ plot.end_time - plot.begin_time = rolling_history

\* The channels of RollingBuffers: one array each, and one array per phase.
ScalarChannels ==
    {"timestamps", "pwm_level", "current_q", "current_d", "current_q_err",
     "current_q_integral", "current_d_err", "current_d_integral", "power_draw",
     "rotor_angular_vel", "torque"}
VectorChannels ==
    {"phase_vs", "phase_currents", "bEmfs", "normed_bEmfs", "pwm_duties",
     "gate_states"}

\* C27: one call of update_rolling_buffers writes every observer channel
\* (timestamp, phase voltages, phase currents, back-EMFs, duties, PWM level,
\* gate states, iq and id, controller errors and integrals, power, angular
\* velocity, torque) at the same index, the write index before the call,
\* writes no other index and advances the write index exactly once; an OFF
\* gate is recorded as -0.5, LOW as 0 and HIGH as 1.
C27_OneIndex ==
    [][writes' = writes + 1 =>
        LET idx == buffers.ctx.next_idx
            others == (0 .. kNumRollingPts - 1) \ {idx}
        IN  /\ DOMAIN buffers' = ScalarChannels \cup VectorChannels \cup {"ctx"}
            /\ buffers'.ctx.next_idx = (idx + 1) % kNumRollingPts
            /\ \A ch \in ScalarChannels : \A j \in others :
                   buffers'[ch][j] = buffers[ch][j]
            /\ \A ch \in VectorChannels : \A n \in Phases : \A j \in others :
                   buffers'[ch][n][j] = buffers[ch][n][j]
            /\ \E in \in ObserverInputs :
                   /\ buffers'.timestamps[idx] = (writes + 1) * params.dt
                   /\ buffers'.pwm_level[idx] = in.board.pwm.level
                   /\ buffers'.current_q[idx] = in.motor.current_qd[1]
                   /\ buffers'.current_d[idx] = in.motor.current_qd[2]
                   /\ buffers'.current_q_err[idx] = in.foc.iq_controller.err
                   /\ buffers'.current_q_integral[idx] = in.foc.iq_controller.integral
                   /\ buffers'.current_d_err[idx] = in.foc.id_controller.err
                   /\ buffers'.current_d_integral[idx] = in.foc.id_controller.integral
                   /\ buffers'.rotor_angular_vel[idx] = in.motor.rotor_angular_vel
                   /\ buffers'.torque[idx] = in.motor.torque
                   /\ buffers'.power_draw[idx] =
                          Sum3([n \in Phases |->
                                   IF in.board.gate.actual[n] = HIGH
                                   THEN in.board.bus_voltage * in.motor.phase_currents[n]
                                   ELSE 0])
                   /\ \A n \in Phases :
                          /\ buffers'.phase_currents[n][idx] = in.motor.phase_currents[n]
                          /\ buffers'.bEmfs[n][idx] = in.motor.bEmfs[n]
                          /\ buffers'.normed_bEmfs[n][idx] = in.motor.normed_bEmfs[n]
                          /\ buffers'.pwm_duties[n][idx] = in.board.pwm.duties[n + 1]
                          /\ buffers'.phase_vs[n][idx] =
                                 get_phase_voltages(
                                     get_pole_voltages(in.board.bus_voltage,
                                                       in.motor.phase_currents,
                                                       in.board.gate),
                                     in.motor.bEmfs)[n]
                          /\ 2 * buffers'.gate_states[n][idx] =
                                 (IF in.board.gate.actual[n] = OFF THEN -2
                                  ELSE IF in.board.gate.actual[n] = LOW THEN 0
                                  ELSE 4)]_vars

\* C27, the case: a sample with one gate HIGH, one LOW and one OFF was written
\* at an index that is not 0, after the buffer had wrapped.
C27_Witness ==
    /\ buffers.ctx.wrap_around
    /\ \E idx \in 1 .. kNumRollingPts - 1 :
          /\ get_rolling_buffer_back(buffers.ctx) = idx
          /\ buffers.gate_states[0][idx] = 2
          /\ buffers.gate_states[1][idx] = 0
          /\ buffers.gate_states[2][idx] = -1
          /\ buffers.timestamps[idx] = writes * params.dt

====
